---- MODULE Spec2Model ----
(***************************************************************************)
(* The SQLite-backed job tracker of CustomGPT/src/job_tracker.py: the two  *)
(* tables job_applications and interviews, and the JobTracker operations   *)
(* on them.  Every operation opens its own connection; with one caller an   *)
(* operation is one atomic action.  With two callers add_application and   *)
(* get_statistics are also modelled statement by statement, as far as the  *)
(* statements of one call can interleave with another caller's.            *)
(*                                                                         *)
(* TEXT values that are compared or matched (company, the two dates) are   *)
(* sequences of character codes; status values are only ever tested for    *)
(* equality and are strings.  An Optional value (a Python None or an SQL   *)
(* NULL against a present value) is a set with at most one element.        *)
(*                                                                         *)
(* Further sections model the callers of the store: the JobSearchAgent of  *)
(* CustomGPT/src/agent.py, whose run_daily_workflow is modelled step by    *)
(* step, and save_all_to_tracker of CustomGPT/ui/dashboard.py; and the two *)
(* calculator services of Agent MCP.                                       *)
(***************************************************************************)
EXTENDS Integers, Sequences, FiniteSets, TLC

\* ------------------------------------------------------------------ bounds
MaxAdds == 2          \* add_application calls in one behaviour
MaxInterviews == 1    \* add_interview calls in one behaviour
MaxBulk == 12         \* add_application calls of the bulk-import behaviours
MaxClock == 1         \* ticks of the clock in one behaviour

\* ------------------------------------------------------------ Optional, TEXT
None == {}
Some(x) == {x}
Value(opt) == CHOOSE x \in opt : TRUE

\* Python truthiness (`if x:`) of an Optional argument: None is falsy, and so
\* are the empty string and 0.
TruthyText(opt) == opt # None /\ opt # Some(<<>>)
TruthyStr(opt) == opt # None /\ opt # Some("")
TruthyInt(opt) == opt # None /\ opt # Some(0)

\* SQLite's BINARY collation (memcmp): a < b for two TEXT values.
RECURSIVE TextLess(_, _)
TextLess(a, b) ==
    IF b = <<>> THEN FALSE
    ELSE IF a = <<>> THEN TRUE
    ELSE IF Head(a) # Head(b) THEN Head(a) < Head(b)
    ELSE TextLess(Tail(a), Tail(b))

TextLeq(a, b) == a = b \/ TextLess(a, b)

\* ASCII case folding, as SQLite's LIKE does it ('A'..'Z' only).
Fold(c) == IF c >= 65 /\ c <= 90 THEN c + 32 ELSE c

\* SQLite's LIKE: '%' (37) matches any run of characters, '_' (95) any one
\* character, every other character itself, case-insensitively for ASCII.
RECURSIVE Like(_, _)
Like(pat, s) ==
    IF pat = <<>> THEN s = <<>>
    ELSE IF Head(pat) = 37
         THEN Like(Tail(pat), s) \/ (s # <<>> /\ Like(pat, Tail(s)))
    ELSE IF s = <<>> THEN FALSE
    ELSE IF Head(pat) = 95 THEN Like(Tail(pat), Tail(s))
    ELSE Fold(Head(pat)) = Fold(Head(s)) /\ Like(Tail(pat), Tail(s))

\* strftime("%Y-%m-%d") / SQLite date(): a fixed-width, zero-padded decimal
\* rendering of a day, so that text order is date order.  Days are counted
\* within one month; the constant "YYYY-MM-" prefix is left out.
FmtDate(d) == <<48 + (d \div 10), 48 + (d % 10)>>

\* --------------------------------------------------------------- constants
Today == 10                \* the day date('now') renders
DefaultDaysAhead == 7
DefaultLimit == 50
TopCompanies == 10

\* ------------------------------------------------------------------- state
VARIABLES
    apps,        \* rows of job_applications
    seq,         \* sqlite_sequence entry of job_applications (AUTOINCREMENT)
    interviews,  \* rows of interviews
    iseq,        \* sqlite_sequence entry of interviews
    returned,    \* the identifiers add_application returned, in call order
    ret,         \* the last call: its name, its arguments, what it returned,
                 \* whether an exception occurred inside it (failed) and
                 \* whether one reached the caller (exc)
    now,         \* the clock datetime.now() reads
    tx,          \* the calls in progress of the concurrent callers
    agent        \* the JobSearchAgent: its AgentState and the position and
                 \* results of its run_daily_workflow call

vars == <<apps, seq, interviews, iseq, returned, ret, now, tx, agent>>

\* What a call hands back: a value; an exception that reaches the caller
\* (except: log, raise); or the value of an except branch that returns.
Returns(op, arg, val) ==
    [op |-> op, arg |-> arg, val |-> val, failed |-> FALSE, exc |-> FALSE]
Raises(op, arg) ==
    [op |-> op, arg |-> arg, val |-> None, failed |-> TRUE, exc |-> TRUE]
Swallows(op, arg, val) ==
    [op |-> op, arg |-> arg, val |-> val, failed |-> TRUE, exc |-> FALSE]

Callers == {"A", "B"}
Idle == [pc |-> "idle"]

\* results = {"applications_processed": 0, "follow_ups_sent": 0,
\* "new_jobs_found": 0, "errors": []}; an entry of errors is kept as the step
\* that appended it and the item it was handling.
NewResults ==
    [applications_processed |-> 0, follow_ups_sent |-> 0, new_jobs_found |-> 0,
     errors |-> <<>>]

\* JobSearchAgent.__init__: AgentState() with status "idle" and
\* daily_application_count 0, and no run_daily_workflow call in progress.
\* The other fields are the record of the calls: `runs` counts them, `steps`
\* lists the steps the current or last call has run, `entered` is the status
\* the current or last call found, `sent` counts the follow-ups generated
\* per application, `generated` is how the generation last went for each
\* application step 3 handled, and `moved` counts the applications set to
\* 'ready_to_apply'.
NewAgent ==
    [status |-> "idle", daily_application_count |-> 0, pc |-> "returned",
     steps |-> <<>>, results |-> NewResults, runs |-> 0, entered |-> "idle",
     sent |-> <<>>, generated |-> <<>>, moved |-> 0]

\* The columns of job_applications the model keeps.  `assigned` is not a
\* column: it remembers the identifier add_application returned for the row.
Columns ==
    {"id", "company", "position", "status", "application_date", "follow_up_date",
     "updated_at"}

Init ==
    /\ apps = {}
    /\ seq = 0
    /\ interviews = {}
    /\ iseq = 0
    /\ returned = <<>>
    /\ ret = Returns("init", <<>>, <<>>)
    /\ now = 0
    /\ tx = [c \in Callers |-> Idle]
    /\ agent = NewAgent

Ids(rows) == {r.id : r \in rows}

Max(S) == CHOOSE x \in S : \A y \in S : y <= x

\* INTEGER PRIMARY KEY AUTOINCREMENT: one more than the largest rowid that
\* the table holds or that an insert ever assigned.
NextRowidReused(rows, s) == Max(Ids(rows) \cup {0}) + 1

NextRowid(rows, s) == Max(Ids(rows) \cup {s}) + 1

\* ------------------------------------------------------------- operations
\* add_application(application): INSERT one row; the identifier is
\* cursor.lastrowid.  application.id is not part of the INSERT.
\* The operations of the store.
StoreOperations ==
    {"add_application", "add_interview", "get_application", "get_applications",
     "update_application", "delete_application", "get_interviews",
     "get_statistics", "get_follow_up_reminders"}

\* Except branches that would raise again in every writing operation.
ReraisesEveryWrite(op) ==
    op \in {"add_application", "add_interview", "update_application",
            "delete_application"}

\* The except branches: `raise` in the two inserts, a return in the others.
Reraises(op) == op \in {"add_application", "add_interview"}

\* return None / [] / False / {} of the except branches; a list is a
\* sequence, the rows of get_interviews a set, the dict a function.
ExceptResult(op) ==
    CASE op = "get_application" -> None
      [] op = "get_applications" -> <<>>
      [] op = "update_application" -> FALSE
      [] op = "delete_application" -> FALSE
      [] op = "get_interviews" -> {}
      [] op = "get_statistics" -> <<>>
      [] op = "get_follow_up_reminders" -> <<>>

\* A call during which the database cannot be used (sqlite3.connect or a
\* statement raises, e.g. the file cannot be opened or stays locked): the
\* `with` block rolls back, the except branch of the operation runs.
storage_failure(ops) ==
    /\ \E op \in ops :
        ret' = IF Reraises(op) THEN Raises(op, <<>>)
               ELSE Swallows(op, <<>>, ExceptResult(op))
    /\ UNCHANGED <<apps, seq, interviews, iseq, returned, now, tx, agent>>

\* Time passes between calls: datetime.now() grows.
Tick ==
    /\ now < MaxClock
    /\ now' = now + 1
    /\ UNCHANGED <<apps, seq, interviews, iseq, returned, ret, tx, agent>>

\* DROP TABLE and CREATE TABLE: what init_database does not do.
CreateTableDropping(exists, rows) == {}

\* CREATE TABLE IF NOT EXISTS: a table that exists keeps its rows, a new one
\* is empty.

CreateTableIfNotExists(exists, rows) == IF exists THEN rows ELSE {}

\* init_database(), as __init__ calls it on every construction.  Both tables
\* exist from the first construction on; sqlite_sequence is not touched.
init_database ==
    /\ apps' = CreateTableIfNotExists(TRUE, apps)
    /\ interviews' = CreateTableIfNotExists(TRUE, interviews)
    /\ ret' = Returns("init_database", <<>>, None)
    /\ UNCHANGED <<seq, iseq, returned, now, tx, agent>>

\* A schema with NOT NULL on company alone.
NotNullCompanyOnly(a) == a.company = None

\* company TEXT NOT NULL, position TEXT NOT NULL

NotNullViolated(a) == a.company = None \/ a.position = None

\* The row an INSERT of `a` with rowid `id` at time `t` writes; the position
\* column is kept as the Optional it was given as.
InsertedRow(a, id, t) ==
    [id |-> id, company |-> Value(a.company), position |-> a.position,
     status |-> a.status, application_date |-> a.application_date,
     follow_up_date |-> a.follow_up_date, updated_at |-> t, assigned |-> id]

\* A failed INSERT is rolled back, logged and raised again; it assigns no
\* rowid.
add_application(inputs, cap) ==
    /\ Len(returned) < cap
    /\ \E a \in inputs :
        LET id == NextRowid(apps, seq)
        IN IF NotNullViolated(a)
           THEN /\ ret' = Raises("add_application", a)
                /\ UNCHANGED <<apps, seq, returned>>
           ELSE /\ apps' = apps \cup {InsertedRow(a, id, now)}
                /\ seq' = id
                /\ returned' = Append(returned, id)
                /\ ret' = Returns("add_application", a, id)
    /\ UNCHANGED <<interviews, iseq, now, tx, agent>>

\* A write in the manner of INSERT OR REPLACE, which resets the follow-up
\* date the mapping does not name.
AssignReplacing(row, updates) ==
    [c \in DOMAIN row |->
        IF c \in DOMAIN updates THEN updates[c]
        ELSE IF c = "follow_up_date" THEN None ELSE row[c]]

\* UPDATE job_applications SET <key> = ?, ... WHERE id = ?: the row after
\* the assignments; every key of `updates` is a column name.
Assign(row, updates) ==
    [c \in DOMAIN row |-> IF c \in DOMAIN updates THEN updates[c] ELSE row[c]]

\* updates['updated_at'] = datetime.now().isoformat(): the mapping the SET
\* clause is built from.
Stamped(updates, t) ==
    [c \in DOMAIN updates \cup {"updated_at"} |->
        IF c = "updated_at" THEN t ELSE updates[c]]

\* The rows of `rows` the UPDATE of application `id` touches, and what it
\* makes of them.
Hit(rows, id) == {r \in rows : r.id = id}
Rewritten(rows, id, updates, t) == {Assign(r, Stamped(updates, t)) : r \in Hit(rows, id)}

\* An UPDATE that would also refuse a status outside the list and any move
\* away from 'rejected': what a status state machine would do, and the
\* source does not.
UpdateFailsOffMachine(rows, id, updates) ==
    \/ \E n \in Rewritten(rows, id, updates, 0) : n.id \in Ids(rows \ Hit(rows, id))
    \/ /\ "status" \in DOMAIN updates
       /\ \/ updates.status \notin
                {"discovered", "applied", "under_review", "interview_scheduled",
                 "rejected", "offer_received"}
          \/ \E r \in Hit(rows, id) :
                r.status = "rejected" /\ updates.status # "rejected"

\* The UPDATE fails when the new id is one another row holds (the primary
\* key): the except branch returns False and nothing is written.  The
\* status column is plain TEXT; no CHECK or trigger looks at it.
UpdateFails(rows, id, updates) ==
    \E n \in Rewritten(rows, id, updates, 0) : n.id \in Ids(rows \ Hit(rows, id))

\* The table after update_application(id, updates) at time t, and its result
\* (cursor.rowcount > 0).
Updated(rows, id, updates, t) ==
    IF UpdateFails(rows, id, updates) THEN rows
    ELSE (rows \ Hit(rows, id)) \cup Rewritten(rows, id, updates, t)

UpdateResult(rows, id, updates) ==
    ~UpdateFails(rows, id, updates) /\ Hit(rows, id) # {}

update_application(ids, updateSets) ==
    /\ \E id \in ids, u \in updateSets :
        /\ apps' = Updated(apps, id, u, now)
        /\ ret' = Returns("update_application", <<id, u>>, UpdateResult(apps, id, u))
    /\ UNCHANGED <<seq, interviews, iseq, returned, now, tx, agent>>

\* delete_application(application_id): the interviews of the application
\* first, then the application; rowcount is that of the second DELETE.
delete_application(ids) ==
    /\ \E id \in ids :
        LET hit == {r \in apps : r.id = id}
        IN /\ interviews' = {i \in interviews : i.application_id # id}
           /\ apps' = apps \ hit
           /\ ret' = Returns("delete_application", id, hit # {})
    /\ UNCHANGED <<seq, iseq, returned, now, tx, agent>>

\* add_interview(interview): INSERT one row.  The FOREIGN KEY clause of the
\* table is not enforced (no PRAGMA foreign_keys = ON on the connection).
add_interview(ids) ==
    /\ iseq < MaxInterviews
    /\ \E aid \in ids :
        LET id == NextRowid(interviews, iseq)
        IN /\ interviews' = interviews \cup {[id |-> id, application_id |-> aid]}
           /\ iseq' = id
           /\ ret' = Returns("add_interview", aid, id)
    /\ UNCHANGED <<apps, seq, returned, now, tx, agent>>

\* A lookup by the identifier add_application returned for the row, which
\* is not what the SELECT does.
ApplicationRowAssigned(id) == {r \in apps : r.assigned = id}

\* get_application(application_id): SELECT ... WHERE id = ?; the row, or
\* None.
ApplicationRow(id) == {r \in apps : r.id = id}

get_application(ids) ==
    /\ \E id \in ids :
        ret' = Returns("get_application", id, ApplicationRow(id))
    /\ UNCHANGED <<apps, seq, interviews, iseq, returned, now, tx, agent>>

\* get_interviews(application_id = None): `if application_id:` picks the
\* filtered SELECT.  The value is the collection of rows returned; their
\* order (by interview_date, which the model does not keep) is left out.
InterviewRows(opt) ==
    IF TruthyInt(opt)
    THEN {i \in interviews : i.application_id = Value(opt)}
    ELSE interviews

get_interviews(args) ==
    /\ \E opt \in args :
        ret' = Returns("get_interviews", opt, InterviewRows(opt))
    /\ UNCHANGED <<apps, seq, interviews, iseq, returned, now, tx, agent>>

\* The lists a SELECT can return for the rows S.  Under an ORDER BY they
\* are the enumerations in which no row comes before a row that sorts
\* before it: SQLite fixes no order among rows with equal keys.
Enumerations(S) ==
    {s \in [1 .. Cardinality(S) -> S] :
        \A i, j \in 1 .. Cardinality(S) : i # j => s[i] # s[j]}

Range(s) == {s[i] : i \in DOMAIN s}

\* get_follow_up_reminders(days_ahead): follow_up_date IS NOT NULL AND
\* follow_up_date <= date('now', '+N days') AND status IN (...), the dates
\* compared as TEXT, ORDER BY follow_up_date ASC.
FollowUpStatusesWide == {"applied", "under_review", "interview_scheduled"}

FollowUpStatuses == {"applied", "under_review"}

FollowUpRows(days) ==
    {r \in apps :
        /\ r.follow_up_date # None
        /\ TextLeq(Value(r.follow_up_date), FmtDate(Today + days))
        /\ r.status \in FollowUpStatuses}

FollowUpBefore(a, b) == TextLess(Value(a.follow_up_date), Value(b.follow_up_date))

FollowUpOrder(S) ==
    {s \in Enumerations(S) :
        \A i, j \in 1 .. Cardinality(S) : i < j => ~FollowUpBefore(s[j], s[i])}

get_follow_up_reminders(daysAhead) ==
    /\ \E days \in daysAhead :
        \E rows \in FollowUpOrder(FollowUpRows(days)) :
            ret' = Returns("get_follow_up_reminders", days, rows)
    /\ UNCHANGED <<apps, seq, interviews, iseq, returned, now, tx, agent>>

\* get_applications(status = None, company = None, limit = 50): the WHERE
\* clause grows by `status = ?` if status is truthy and by `company LIKE
\* '%<company>%'` if company is truthy; ORDER BY application_date DESC
\* LIMIT ?.  limit is a row count (the callers pass 10 or nothing).
Where(rows, status, company) ==
    {r \in rows :
        /\ TruthyStr(status) => r.status = Value(status)
        /\ TruthyText(company) => Like(<<37>> \o Value(company) \o <<37>>, r.company)}

ApplicationsWhere(status, company) == Where(apps, status, company)

ApplicationBeforeAscending(a, b) == TextLess(a.application_date, b.application_date)

ApplicationBefore(a, b) == TextLess(b.application_date, a.application_date)

ApplicationOrder(S) ==
    {s \in Enumerations(S) :
        \A i, j \in 1 .. Cardinality(S) : i < j => ~ApplicationBefore(s[j], s[i])}

Min(a, b) == IF a <= b THEN a ELSE b

Limit(rows, n) == SubSeq(rows, 1, Min(n, Len(rows)))

LimitOf(opt) == IF opt = None THEN DefaultLimit ELSE Value(opt)

get_applications(statuses, companies, limits) ==
    /\ \E status \in statuses, company \in companies, limit \in limits :
        \E rows \in ApplicationOrder(ApplicationsWhere(status, company)) :
            ret' = Returns("get_applications",
                           [status |-> status, company |-> company, limit |-> limit],
                           Limit(rows, LimitOf(limit)))
    /\ UNCHANGED <<apps, seq, interviews, iseq, returned, now, tx, agent>>

\* round(x, 2) of the quotient num / den of two integers, in hundredths:
\* to the nearest hundredth, an exact half to the even one.
RoundHalfEven(num, den) ==
    LET q == num \div den
        r == num % den
    IN IF 2 * r < den THEN q
       ELSE IF 2 * r > den THEN q + 1
       ELSE IF q % 2 = 0 THEN q ELSE q + 1

\* dict.get(key, 0)
Get(dict, key) == IF key \in DOMAIN dict THEN dict[key] ELSE 0

\* SELECT status, COUNT(*) ... GROUP BY status
StatusCounts ==
    [st \in {r.status : r \in apps} |-> Cardinality({r \in apps : r.status = st})]

\* SELECT company, COUNT(*) ... GROUP BY company
CompanyCountAll(c) == Cardinality(apps)

CompanyCount(c) == Cardinality({r \in apps : r.company = c})

\* ... ORDER BY COUNT(*) DESC LIMIT 10: the groups that can be returned.
\* Among groups of equal count SQLite fixes no order.
TopGroups ==
    LET groups == {r.company : r \in apps}
    IN IF Cardinality(groups) <= TopCompanies THEN {groups}
       ELSE {D \in SUBSET groups :
                /\ Cardinality(D) = TopCompanies
                /\ \A c \in D, d \in groups \ D : CompanyCount(c) >= CompanyCount(d)}

RespondedMore ==
    Get(StatusCounts, "interview_scheduled") + Get(StatusCounts, "rejected")
        + Get(StatusCounts, "offer_received") + Get(StatusCounts, "under_review")

\* responded = status_counts.get('interview_scheduled', 0) + ...
RespondedIn(counts) ==
    Get(counts, "interview_scheduled") + Get(counts, "rejected")
        + Get(counts, "offer_received")

Responded == RespondedIn(StatusCounts)

\* response_rate = round(responded / total_applications * 100, 2) if
\* total_applications > 0 else 0, in hundredths of a percent.
ResponseRate(responded, total) ==
    IF total > 0 THEN RoundHalfEven(responded * 100 * 100, total) ELSE 0

\* get_statistics().  response_rate is kept in hundredths of a percent (the
\* two decimals round() leaves).  monthly_counts is not kept: the dates of
\* the model lie in one month.
get_statistics ==
    /\ \E top \in TopGroups :
        LET total == Cardinality(apps)
        IN ret' = Returns("get_statistics", <<>>,
                          [total_applications |-> total,
                           status_counts |-> StatusCounts,
                           company_counts |-> [c \in top |-> CompanyCount(c)],
                           total_interviews |-> Cardinality(interviews),
                           response_rate |-> ResponseRate(Responded, total)])
    /\ UNCHANGED <<apps, seq, interviews, iseq, returned, now, tx, agent>>

\* ---------------------------------------------------------------- inputs
Meta == <<77, 101, 116, 97>>
Google == <<71, 111, 111, 103, 108, 101>>

\* JobApplication(company = ...): the dataclass defaults for the rest, with
\* the application date the callers set.
Engineer == <<69, 110, 103>>

Application(company, status, application_date, follow_up_date) ==
    [company |-> Some(company), position |-> Some(Engineer), status |-> status,
     application_date |-> application_date, follow_up_date |-> follow_up_date]

IdValues == 0 .. MaxAdds

\* ------------------------------------------------- identifiers and cascade
\* JobApplication(company = None) and JobApplication(position = None): the
\* dataclass accepts them, the table does not.
WithoutCompany(a) == [a EXCEPT !.company = None]
WithoutPosition(a) == [a EXCEPT !.position = None]

IdApps ==
    LET a == Application(Meta, "applied", FmtDate(Today), Some(<<>>))
    IN {a, WithoutCompany(a), WithoutPosition(a)}

IdUpdates ==
    {[id |-> v] : v \in IdValues}

Next ==
    \/ add_application(IdApps, MaxAdds)
    \/ update_application(IdValues, IdUpdates)
    \/ delete_application(IdValues)
    \/ add_interview(IdValues)
    \/ get_application(IdValues)
    \/ get_interviews({None} \cup {Some(v) : v \in IdValues})
    \/ init_database

Spec == Init /\ [][Next]_vars

\* C1: every identifier add_application returns differs from every
\* identifier it returned earlier in the session, also from those of
\* applications deleted since, and the identifiers returned never decrease
\* in call order.
C1_ReturnedIdsUniqueMonotone ==
    \A i, j \in 1 .. Len(returned) :
        i < j => returned[i] # returned[j] /\ returned[i] <= returned[j]

\* An add_application that follows the deletion of every earlier application.
C1_Witness ==
    /\ ret.op = "add_application"
    /\ Len(returned) = 2
    /\ Cardinality(apps) = 1

\* C2: right after delete_application(id) deleted an existing application, no
\* interview of that application remains, get_application(id) returns None
\* and get_interviews(id) returns an empty list.
C2_DeleteCascades ==
    (ret.op = "delete_application" /\ ret.val)
        => /\ \A i \in interviews : i.application_id # ret.arg
           /\ ApplicationRow(ret.arg) = None
           /\ InterviewRows(Some(ret.arg)) = {}

\* C3: every interview's application_id is the identifier of a stored
\* application.
C3_InterviewsReferenceApplications ==
    \A i \in interviews : i.application_id \in Ids(apps)

\* C4: the identifier of a stored application is the one add_application
\* returned for it, whatever update_application calls were made since.
C4_IdImmutable ==
    \A r \in apps : r.id = r.assigned

\* C12: delete_application(id) returns True exactly when an application with
\* that id existed before the call; every other application and every
\* interview of another application is unchanged, and a call that returns
\* False leaves applications and interviews unchanged.
C12_DeleteFrame ==
    [][ret'.op = "delete_application" =>
        /\ ret'.val = (ret'.arg \in Ids(apps))
        /\ apps' \subseteq apps
        /\ \A r \in apps : r.id # ret'.arg => r \in apps'
        /\ interviews' \subseteq interviews
        /\ \A i \in interviews : i.application_id # ret'.arg => i \in interviews'
        /\ (~ret'.val => apps' = apps /\ interviews' = interviews)]_vars

\* C13: get_application(id) does not raise; it returns the stored application
\* with that id when there is one and None when there is none (an id deleted
\* or never assigned included), and it leaves the store as it was.
C13_GetApplication ==
    [][ret'.op = "get_application" =>
        /\ ~ret'.exc
        /\ ret'.val = {r \in apps : r.id = ret'.arg}
        /\ Cardinality(ret'.val) <= 1
        /\ (ret'.arg \notin Ids(apps) => ret'.val = None)
        /\ UNCHANGED <<apps, seq, interviews, iseq>>]_vars

\* get_application found nothing for an identifier that was assigned and
\* then deleted, while another application is stored.
C13_Witness ==
    /\ ret.op = "get_application"
    /\ ret.val = None
    /\ ret.arg \in Range(returned)
    /\ apps # {}

\* C15: an add_application whose company or position is missing (NOT NULL in
\* the schema) raises, returns no identifier and leaves applications,
\* interviews and the identifier counters as they were; an insert that
\* succeeds, also after failed ones, returns an identifier no earlier call
\* returned and no stored application has.
C15_FailedInsertLeavesStore ==
    [][ret'.op = "add_application" =>
        IF ret'.arg.company = None \/ ret'.arg.position = None
        THEN /\ ret'.exc
             /\ ret'.val = None
             /\ UNCHANGED <<apps, seq, interviews, iseq, returned>>
        ELSE /\ ~ret'.exc
             /\ ret'.val \notin Range(returned)
             /\ ret'.val \notin Ids(apps)
             /\ ret'.val \in Ids(apps')]_vars

\* An insert without a position failed on a store that holds an application
\* and whose identifier counter is ahead of it.
C15_Witness ==
    /\ ret.op = "add_application"
    /\ ret.exc
    /\ ret.arg.position = None
    /\ Cardinality(apps) = 1
    /\ Len(returned) = 1
    /\ \A r \in apps : r.position # None

\* C19: init_database on a store that exists succeeds and leaves every
\* application, every interview and the next identifiers to be assigned as
\* they were.
C19_InitDatabaseIdempotent ==
    [][ret'.op = "init_database" =>
        /\ ~ret'.exc
        /\ apps' = apps
        /\ interviews' = interviews
        /\ NextRowid(apps', seq') = NextRowid(apps, seq)
        /\ NextRowid(interviews', iseq') = NextRowid(interviews, iseq)]_vars

\* init_database ran on a store holding an application and an interview,
\* after a deletion left the identifier counter ahead of the stored rows.
C19_Witness ==
    /\ ret.op = "init_database"
    /\ apps # {}
    /\ interviews # {}
    /\ seq > Max(Ids(apps) \cup {0})

\* C23: get_interviews(application_id) returns exactly the interviews whose
\* application_id is the argument, for every integer argument (0 included),
\* and all interviews only when called without an argument.
C23_InterviewsOfApplication ==
    ret.op = "get_interviews" =>
        IF ret.arg = None THEN ret.val = interviews
        ELSE ret.val = {i \in interviews : i.application_id = Value(ret.arg)}

\* ------------------------------------------------------ follow-up reminders
\* Applications as the dashboard form and the agent create them: no
\* follow-up date (the dataclass default ""), or one 3 or 8 days ahead.  An
\* update clears the date or moves it 7 days ahead, as the agent does.
FollowUpApps ==
    {Application(Meta, "applied", FmtDate(Today), f) :
        f \in {Some(<<>>), Some(FmtDate(Today + 3)), Some(FmtDate(Today + 8))}}

FollowUpUpdates ==
    {[status |-> st] : st \in {"under_review", "interview_scheduled"}}
        \cup {[follow_up_date |-> f] : f \in {None, Some(FmtDate(Today + 7))}}

NextFollowUp ==
    \/ add_application(FollowUpApps, MaxAdds)
    \/ update_application(IdValues, FollowUpUpdates)
    \/ delete_application(IdValues)
    \/ get_follow_up_reminders({0, DefaultDaysAhead})

SpecFollowUp == Init /\ [][NextFollowUp]_vars

\* A TEXT value that renders a day on or before `last`.
IsDateUpTo(opt, last) == \E d \in 0 .. last : opt = Some(FmtDate(d))

\* C5: get_follow_up_reminders(7) returns only applications whose status is
\* applied or under_review and whose follow_up_date is a date on or before
\* today plus 7 days, in ascending order of follow_up_date; an application
\* whose follow_up_date is the default empty value is not returned.
C5_FollowUpReminders ==
    (ret.op = "get_follow_up_reminders" /\ ret.arg = DefaultDaysAhead)
        => /\ \A i \in DOMAIN ret.val :
                /\ ret.val[i].status \in {"applied", "under_review"}
                /\ IsDateUpTo(ret.val[i].follow_up_date, Today + 7)
                /\ ret.val[i].follow_up_date # Some(<<>>)
           /\ \A i, j \in DOMAIN ret.val :
                i < j => TextLeq(Value(ret.val[i].follow_up_date),
                                 Value(ret.val[j].follow_up_date))

\* C6: an application added with status applied and a follow_up_date within
\* the next 7 days is among the rows get_follow_up_reminders(7) selects; once
\* update_application has set its status to one outside {applied,
\* under_review} it no longer is.
C6_StatusChangeEndsReminder ==
    /\ (/\ ret.op = "add_application"
        /\ ret.arg.status = "applied"
        /\ \E d \in Today .. Today + 7 : ret.arg.follow_up_date = Some(FmtDate(d)))
            => \E r \in FollowUpRows(7) : r.id = ret.val
    /\ (/\ ret.op = "update_application"
        /\ ret.val
        /\ "status" \in DOMAIN ret.arg[2]
        /\ ret.arg[2].status \notin {"applied", "under_review"})
            => ~\E r \in FollowUpRows(7) : r.id = ret.arg[1]

\* The status of an application due in 3 days was set to interview_scheduled.
C6_Witness ==
    /\ ret.op = "update_application"
    /\ ret.val
    /\ ret.arg[2] = [status |-> "interview_scheduled"]
    /\ \E r \in apps : /\ r.id = ret.arg[1]
                        /\ r.follow_up_date = Some(FmtDate(Today + 3))

\* ---------------------------------------------------------------- filters
FilterApps ==
    {Application(c, st, FmtDate(d), Some(<<>>)) :
        c \in {Meta, Google}, st \in {"applied", "rejected"}, d \in {Today - 1, Today}}

FilterUpdates == {[status |-> "rejected"]}

\* status: none, "", "applied"; company: none, "", "me", "_"
StatusFilters == {None, Some(""), Some("applied")}
CompanyFilters == {None, Some(<<>>), Some(<<109, 101>>), Some(<<95>>)}
Limits == {None, Some(1)}

NextFilter ==
    \/ add_application(FilterApps, MaxAdds)
    \/ update_application(IdValues, FilterUpdates)
    \/ delete_application(IdValues)
    \/ get_applications(StatusFilters, CompanyFilters, Limits)

SpecFilter == Init /\ [][NextFilter]_vars

\* c occurs in s as a substring, letters compared without regard to case.
ContainsFolded(s, c) ==
    \E k \in 0 .. Len(s) - Len(c) :
        \A m \in 1 .. Len(c) : Fold(s[k + m]) = Fold(c[m])

\* C7: when a status filter is passed, get_applications returns only
\* applications whose status equals it; when a company filter is passed,
\* only applications whose company contains it, compared case-insensitively.
\* Every filter value passed is applied.
C7_FiltersApplied ==
    ret.op = "get_applications"
        => \A i \in DOMAIN ret.val :
            /\ ret.arg.status # None => ret.val[i].status = Value(ret.arg.status)
            /\ ret.arg.company # None
                    => ContainsFolded(ret.val[i].company, Value(ret.arg.company))

\* C8: get_applications returns at most `limit` applications (50 when no
\* limit is given), in descending order of application_date, and they are
\* the `limit` matching applications with the latest application dates.
C8_LatestWithinLimit ==
    ret.op = "get_applications"
        => LET matching == ApplicationsWhere(ret.arg.status, ret.arg.company)
               limit == IF ret.arg.limit = None THEN 50 ELSE Value(ret.arg.limit)
               rows == ret.val
           IN /\ Len(rows) <= limit
              /\ Len(rows) = Min(limit, Cardinality(matching))
              /\ Range(rows) \subseteq matching
              /\ \A i, j \in DOMAIN rows :
                    i < j => /\ rows[i] # rows[j]
                             /\ TextLeq(rows[j].application_date,
                                        rows[i].application_date)
              /\ \A r \in matching \ Range(rows) : \A i \in DOMAIN rows :
                    TextLeq(r.application_date, rows[i].application_date)

\* limit = 1 cut a result of two applications down to the later one.
C8_Witness ==
    /\ ret.op = "get_applications"
    /\ ret.arg.limit = Some(1)
    /\ Len(ret.val) = 1
    /\ \E r \in ApplicationsWhere(ret.arg.status, ret.arg.company) :
            TextLess(r.application_date, ret.val[1].application_date)

\* ------------------------------------------------------------- statistics
StatusValues ==
    {"discovered", "applied", "under_review", "interview_scheduled", "rejected",
     "offer_received"}

StatusApps == {Application(Meta, "applied", FmtDate(Today), Some(<<>>))}

StatusUpdates == {[status |-> st] : st \in StatusValues}

NextStatus ==
    \/ add_application(StatusApps, MaxAdds + 1)
    \/ update_application(1 .. MaxAdds + 1, StatusUpdates)
    \/ delete_application(1 .. MaxAdds + 1)
    \/ add_interview({1})
    \/ get_statistics

SpecStatus == Init /\ [][NextStatus]_vars

\* C9: get_statistics returns response_rate 0 when the store holds no
\* application; otherwise response_rate is 100 * (applications with status
\* interview_scheduled, rejected or offer_received) / total_applications
\* rounded to two decimals; it always lies between 0 and 100.
C9_ResponseRate ==
    ret.op = "get_statistics"
        => LET total == Cardinality(apps)
               responded == Cardinality({r \in apps : r.status \in
                    {"interview_scheduled", "rejected", "offer_received"}})
               rate == ret.val.response_rate
               off == rate * total - 100 * 100 * responded
           IN /\ ret.val.total_applications = total
              /\ total = 0 => rate = 0
              /\ total > 0 => 2 * off <= total /\ 2 * (0 - off) <= total
              /\ rate >= 0 /\ rate <= 100 * 100

\* One of three applications got a response: 33.33 percent.
C9_Witness ==
    /\ ret.op = "get_statistics"
    /\ ret.val.total_applications = 3
    /\ ret.val.response_rate = 3333

\* ------------------------------------------------------ status transitions
\* The listed statuses and a string outside the list.
AnyStatus == StatusValues \cup {"ghosted"}

TransitionUpdates == {[status |-> st] : st \in AnyStatus}

NextTransition ==
    \/ add_application(StatusApps, MaxAdds)
    \/ update_application(1 .. MaxAdds, TransitionUpdates)
    \/ get_application(1 .. MaxAdds)

SpecTransition == Init /\ [][NextTransition]_vars

\* C16: whatever the status s of a stored application and whatever the
\* string t (a listed status or not), update_application(id, {'status': t})
\* returns True and the stored status of that application is t afterwards.
C16_AnyStatusTransition ==
    [][(/\ ret'.op = "update_application"
        /\ "status" \in DOMAIN ret'.arg[2]
        /\ ret'.arg[1] \in Ids(apps))
        => /\ ret'.val
           /\ \E r \in apps' : r.id = ret'.arg[1]
           /\ \A r \in apps' : r.id = ret'.arg[1] => r.status = ret'.arg[2].status
           /\ \A r \in apps' : r.id # ret'.arg[1] => r \in apps]_vars

\* An update to a status outside the list succeeded on one of two stored
\* applications.
C16_Witness ==
    /\ ret.op = "update_application"
    /\ ret.val
    /\ ret.arg[2].status = "ghosted"
    /\ \E r \in apps : r.id = ret.arg[1] /\ r.status = "ghosted"
    /\ \E r \in apps : r.id # ret.arg[1] /\ r.status = "rejected"

\* ------------------------------------------------------------ partial update
\* A status change, and a mapping that names the id column.
PartialUpdates == {[status |-> "rejected"], [id |-> MaxAdds]}

NextUpdate ==
    \/ add_application(StatusApps, MaxAdds)
    \/ update_application(1 .. MaxAdds, PartialUpdates)
    \/ add_interview({1})
    \/ Tick

SpecUpdate == Init /\ [][NextUpdate]_vars

\* C11: update_application(id, updates) returns True exactly when an
\* application with that id is stored; it then gives the fields named in
\* updates the given values, sets updated_at to the time of the call and
\* leaves the other fields of that application, the other applications and
\* the interviews as they were; with no such application it returns False,
\* does not raise and changes nothing.
C11_UpdateFrame ==
    [][(ret'.op = "update_application" /\ now' = now) =>
        LET id == ret'.arg[1]
            u == ret'.arg[2]
        IN /\ ~ret'.exc
           /\ ret'.val = (id \in Ids(apps))
           /\ interviews' = interviews
           /\ \A r \in apps : r.id # id => r \in apps'
           /\ Cardinality(apps') = Cardinality(apps)
           /\ \A r \in apps : r.id = id =>
                \E n \in apps' :
                    /\ \A c \in DOMAIN u : n[c] = u[c]
                    /\ n.updated_at = now
                    /\ \A c \in DOMAIN r \ (DOMAIN u \cup {"updated_at"}) :
                            n[c] = r[c]
           /\ (id \notin Ids(apps) => apps' = apps)]_vars

\* --------------------------------------------------------- storage failures
NextFailure ==
    \/ add_application(StatusApps, MaxAdds)
    \/ add_interview(1 .. MaxAdds)
    \/ update_application(1 .. MaxAdds, StatusUpdates)
    \/ delete_application(1 .. MaxAdds)
    \/ get_application(1 .. MaxAdds)
    \/ storage_failure(StoreOperations)

SpecFailure == Init /\ [][NextFailure]_vars

\* C14 as claimed: no operation of the store lets an exception reach its
\* caller.
C14_NoExceptionReachesCaller ==
    ~ret.exc

\* C14, amended: a failure inside add_application or add_interview is raised
\* again and reaches the caller; a failure inside any other operation is
\* turned into None, an empty list, an empty dict or False; in both cases the
\* store is as it was before the call.
C14_OnlyInsertsRaise ==
    [][ret'.failed =>
        /\ UNCHANGED <<apps, seq, interviews, iseq, returned>>
        /\ ret'.exc = (ret'.op \in {"add_application", "add_interview"})
        /\ ret'.op \in {"update_application", "delete_application"}
                => ret'.val = FALSE
        /\ ret'.op \in {"get_applications", "get_follow_up_reminders"}
                => ret'.val = <<>>
        /\ ret'.op \in {"get_application", "get_interviews"}
                => ret'.val = {}
        /\ ret'.op = "get_statistics" => DOMAIN ret'.val = {}]_vars

\* update_application failed on a store that holds the application and an
\* interview: False came back and nothing was raised.
C14_Witness ==
    /\ ret.op = "update_application"
    /\ ret.failed
    /\ ~ret.exc
    /\ ret.val = FALSE
    /\ apps # {}
    /\ interviews # {}

\* ------------------------------------------------------- concurrent inserts
\* Two callers run add_application, each on its own connection.  A call is
\* four steps: sqlite3.connect; the INSERT, which takes the write lock of the
\* database file and picks the rowid that cursor.lastrowid then reads;
\* conn.commit(), which makes the row visible and frees the lock; the
\* return.  An INSERT issued while another connection holds the write lock
\* waits in the busy handler (sqlite3.connect's default timeout) until the
\* lock is free.
InProgress == {"connected", "inserted", "committed"}

\* An INSERT that would not wait for the write lock.
WriteLockIgnored(c) == TRUE

\* No other connection holds the write lock.

WriteLockFree(c) == \A d \in Callers \ {c} : tx[d].pc # "inserted"

add_connect(c, inputs, cap) ==
    /\ tx[c].pc \in {"idle", "done"}
    /\ Len(returned) + Cardinality({d \in Callers : tx[d].pc \in InProgress}) < cap
    /\ \E a \in inputs :
        tx' = [tx EXCEPT ![c] =
                [pc |-> "connected", arg |-> a,
                 overlap |-> \E d \in Callers \ {c} : tx[d].pc \in InProgress]]
    /\ UNCHANGED <<apps, seq, interviews, iseq, returned, ret, now, agent>>

add_insert(c) ==
    /\ tx[c].pc = "connected"
    /\ WriteLockFree(c)
    /\ tx' = [tx EXCEPT ![c] =
                [pc |-> "inserted", arg |-> tx[c].arg, overlap |-> tx[c].overlap,
                 row |-> InsertedRow(tx[c].arg, NextRowid(apps, seq), now),
                 lastrowid |-> NextRowid(apps, seq)]]
    /\ UNCHANGED <<apps, seq, interviews, iseq, returned, ret, now, agent>>

add_commit(c) ==
    /\ tx[c].pc = "inserted"
    /\ apps' = apps \cup {tx[c].row}
    /\ seq' = tx[c].row.id
    /\ tx' = [tx EXCEPT ![c] =
                [pc |-> "committed", arg |-> tx[c].arg, overlap |-> tx[c].overlap,
                 lastrowid |-> tx[c].lastrowid]]
    /\ UNCHANGED <<interviews, iseq, returned, ret, now, agent>>

add_return(c) ==
    /\ tx[c].pc = "committed"
    /\ returned' = Append(returned, tx[c].lastrowid)
    /\ ret' = Returns("add_application", tx[c].arg, tx[c].lastrowid)
    /\ tx' = [tx EXCEPT ![c] =
                [pc |-> "done", arg |-> tx[c].arg, overlap |-> tx[c].overlap,
                 val |-> tx[c].lastrowid]]
    /\ UNCHANGED <<apps, seq, interviews, iseq, now, agent>>

ConcurrentApps ==
    {Application(c, st, FmtDate(Today), Some(<<>>)) :
        c \in {Meta, Google}, st \in {"applied", "discovered"}}

NextConcurrentAdd ==
    \/ \E c \in Callers : add_connect(c, ConcurrentApps, MaxAdds)
    \/ \E c \in Callers : add_insert(c)
    \/ \E c \in Callers : add_commit(c)
    \/ \E c \in Callers : add_return(c)

SpecConcurrentAdd == Init /\ [][NextConcurrentAdd]_vars

\* C17: when the add_application calls of two callers have both returned,
\* under every interleaving of their steps, the two identifiers returned
\* differ, each is the id of exactly one stored application, and that
\* application has every field as the caller gave it.
C17_ConcurrentAddsIntact ==
    \A c \in Callers : tx[c].pc = "done" =>
        /\ \A d \in Callers \ {c} : tx[d].pc = "done" => tx[d].val # tx[c].val
        /\ Cardinality({r \in apps : r.id = tx[c].val}) = 1
        /\ \E r \in apps : r = InsertedRow(tx[c].arg, tx[c].val, r.updated_at)

\* Both calls have returned, and the second began while the first was in
\* progress; the callers inserted different applications.
C17_Witness ==
    /\ tx["A"].pc = "done"
    /\ tx["B"].pc = "done"
    /\ tx["A"].overlap \/ tx["B"].overlap
    /\ tx["A"].arg # tx["B"].arg
    /\ Cardinality(apps) = 2

\* ------------------------------------------------- statistics under writes
\* get_statistics as its caller's connection runs it: the SELECTs are
\* separate statements, each reading the database as committed at that
\* moment (the sqlite3 module opens no transaction for a SELECT), so the
\* committed writes of other callers can fall between them.
stats_total(c) ==
    /\ tx[c].pc = "idle"
    /\ tx' = [tx EXCEPT ![c] = [pc |-> "counted", total |-> Cardinality(apps)]]
    /\ UNCHANGED <<apps, seq, interviews, iseq, returned, ret, now, agent>>

stats_status(c) ==
    /\ tx[c].pc = "counted"
    /\ tx' = [tx EXCEPT ![c] =
                [pc |-> "grouped", total |-> tx[c].total,
                 status_counts |-> StatusCounts]]
    /\ UNCHANGED <<apps, seq, interviews, iseq, returned, ret, now, agent>>

stats_company(c) ==
    /\ tx[c].pc = "grouped"
    /\ \E top \in TopGroups :
        tx' = [tx EXCEPT ![c] =
                [pc |-> "ranked", total |-> tx[c].total,
                 status_counts |-> tx[c].status_counts,
                 company_counts |-> [k \in top |-> CompanyCount(k)]]]
    /\ UNCHANGED <<apps, seq, interviews, iseq, returned, ret, now, agent>>

\* SELECT COUNT(*) FROM interviews, then the rate and the return.
stats_return(c) ==
    /\ tx[c].pc = "ranked"
    /\ ret' = Returns("get_statistics", <<>>,
                      [total_applications |-> tx[c].total,
                       status_counts |-> tx[c].status_counts,
                       company_counts |-> tx[c].company_counts,
                       total_interviews |-> Cardinality(interviews),
                       response_rate |->
                           ResponseRate(RespondedIn(tx[c].status_counts),
                                        tx[c].total)])
    /\ tx' = [tx EXCEPT ![c] = Idle]
    /\ UNCHANGED <<apps, seq, interviews, iseq, returned, now, agent>>

SnapshotApps ==
    {Application(Meta, st, FmtDate(Today), Some(<<>>)) : st \in {"applied", "rejected"}}

NextSnapshot ==
    \/ stats_total("A")
    \/ stats_status("A")
    \/ stats_company("A")
    \/ stats_return("A")
    \/ add_application(SnapshotApps, MaxAdds)
    \/ update_application(1 .. MaxAdds, FilterUpdates)
    \/ delete_application(1 .. MaxAdds)
    \/ add_interview({1})

SpecSnapshot == Init /\ [][NextSnapshot]_vars

RECURSIVE SumOver(_, _)
SumOver(f, D) ==
    IF D = {} THEN 0
    ELSE LET k == CHOOSE k \in D : TRUE
         IN f[k] + SumOver(f, D \ {k})

\* C18: whatever other callers add, update or delete while get_statistics
\* runs, the values of status_counts it returns sum to the
\* total_applications it returns, and response_rate lies between 0 and 100.
C18_StatisticsSnapshot ==
    (ret.op = "get_statistics" /\ ~ret.failed) =>
        /\ SumOver(ret.val.status_counts, DOMAIN ret.val.status_counts)
                = ret.val.total_applications
        /\ ret.val.response_rate >= 0
        /\ ret.val.response_rate <= 100 * 100

\* ------------------------------------------------------- fetch, then update
\* Caller A fetches an application and later updates it: two calls, each
\* with its own connection and transaction.  Caller B's update_application
\* calls run whenever they like; `between` notes that B's call ran on the
\* application A had fetched and not yet updated.
fetch(c, ids) ==
    /\ tx[c].pc = "idle"
    /\ \E id \in ids :
        /\ ret' = Returns("get_application", id, ApplicationRow(id))
        /\ tx' = [tx EXCEPT ![c] =
                    [pc |-> "fetched", id |-> id, read |-> ApplicationRow(id)]]
    /\ UNCHANGED <<apps, seq, interviews, iseq, returned, now, agent>>

update_fetched(c, updateSets) ==
    /\ tx[c].pc = "fetched"
    /\ \E u \in updateSets :
        /\ apps' = Updated(apps, tx[c].id, u, now)
        /\ ret' = Returns("update_application", <<tx[c].id, u>>,
                          UpdateResult(apps, tx[c].id, u))
        /\ tx' = [tx EXCEPT ![c] =
                    [pc |-> "done", id |-> tx[c].id, read |-> tx[c].read,
                     u |-> u, val |-> UpdateResult(apps, tx[c].id, u)]]
    /\ UNCHANGED <<seq, interviews, iseq, returned, now, agent>>

update_by(c, ids, updateSets) ==
    /\ \E id \in ids, u \in updateSets :
        /\ apps' = Updated(apps, id, u, now)
        /\ ret' = Returns("update_application", <<id, u>>, UpdateResult(apps, id, u))
        /\ tx' = [tx EXCEPT ![c] =
                    [pc |-> "updated", id |-> id, u |-> u,
                     val |-> UpdateResult(apps, id, u),
                     between |-> \E d \in Callers \ {c} :
                                    tx[d].pc = "fetched" /\ tx[d].id = id]]
    /\ UNCHANGED <<seq, interviews, iseq, returned, now, agent>>

\* A moves the application on; B rejects it and sets a follow-up date, or
\* sets the date only.
FetcherUpdates ==
    {[status |-> "interview_scheduled"],
     [status |-> "interview_scheduled", follow_up_date |-> None]}

OtherUpdates ==
    {[status |-> "rejected", follow_up_date |-> Some(FmtDate(Today + 7))],
     [follow_up_date |-> Some(FmtDate(Today + 7))]}

NextRace ==
    \/ add_application(StatusApps, MaxAdds)
    \/ fetch("A", 1 .. MaxAdds)
    \/ update_fetched("A", FetcherUpdates)
    \/ update_by("B", 1 .. MaxAdds, OtherUpdates)

SpecRace == Init /\ [][NextRace]_vars

\* C20: when B's update_application of application X ran between A's
\* get_application(X) and A's update_application(X, u), A's update returns
\* True all the same, the stored record then holds A's values in the fields
\* u names and B's values in the fields only B named, and it differs from
\* what A read.
C20_FetchThenUpdateRaces ==
    [][(/\ tx["A"].pc = "fetched"
        /\ tx'["A"].pc = "done"
        /\ tx["B"].pc = "updated"
        /\ tx["B"].between
        /\ tx["B"].val
        /\ tx["B"].id = tx["A"].id)
        => /\ tx'["A"].val
           /\ \E n \in apps' :
                /\ n.id = tx["A"].id
                /\ \A f \in DOMAIN tx'["A"].u : n[f] = tx'["A"].u[f]
                /\ \A f \in DOMAIN tx["B"].u \ DOMAIN tx'["A"].u :
                        n[f] = tx["B"].u[f]
                /\ tx["A"].read # {n}]_vars

\* A's update went through after B's: the record has A's status and the
\* follow-up date B set, and A had read neither.
C20_Witness ==
    /\ tx["A"].pc = "done"
    /\ tx["A"].val
    /\ tx["B"].pc = "updated"
    /\ tx["B"].between
    /\ tx["B"].id = tx["A"].id
    /\ \E r \in tx["A"].read :
            r.status = "applied" /\ r.follow_up_date = Some(<<>>)
    /\ \E n \in apps :
            /\ n.id = tx["A"].id
            /\ n.status = "interview_scheduled"
            /\ n.follow_up_date = Some(FmtDate(Today + 7))

\* ------------------------------------------------------------ bulk import
\* "C01", "C02", ...
CompanyName(k) == <<67, 48 + (k \div 10), 48 + (k % 10)>>

\* The rows of an import: each is for a company not seen so far or for the
\* first company again.
BulkApps ==
    {Application(c, "applied", FmtDate(Today), Some(<<>>)) :
        c \in {CompanyName(seq + 1), CompanyName(1)}}

NextBulk ==
    \/ add_application(BulkApps, MaxBulk)
    \/ get_statistics

SpecBulk == Init /\ [][NextBulk]_vars

\* C10 as claimed: company_counts maps every company with at least one
\* stored application to the number of its stored applications, whatever
\* the number of distinct companies.
C10_EveryCompanyCounted ==
    ret.op = "get_statistics"
        => /\ DOMAIN ret.val.company_counts = {r.company : r \in apps}
           /\ \A c \in DOMAIN ret.val.company_counts :
                ret.val.company_counts[c]
                    = Cardinality({r \in apps : r.company = c})

\* C10 as amended: company_counts maps each of the 10 companies with the
\* most stored applications (every company when there are at most 10) to
\* the number of its stored applications.
C10_TopTenCompaniesCounted ==
    ret.op = "get_statistics"
        => LET counts == ret.val.company_counts
               companies == {r.company : r \in apps}
               Stored(c) == Cardinality({r \in apps : r.company = c})
           IN /\ DOMAIN counts \subseteq companies
              /\ Cardinality(DOMAIN counts) = Min(10, Cardinality(companies))
              /\ \A c \in DOMAIN counts : counts[c] = Stored(c)
              /\ \A c \in DOMAIN counts, d \in companies \ DOMAIN counts :
                    Stored(c) >= Stored(d)

\* Statistics over 11 companies, one of them with two applications.
C10_Witness ==
    /\ ret.op = "get_statistics"
    /\ Cardinality({r.company : r \in apps}) = 11
    /\ Cardinality(DOMAIN ret.val.company_counts) = 10
    /\ \E c \in DOMAIN ret.val.company_counts : ret.val.company_counts[c] = 2

\* ------------------------------------------------------- calculator services
\* The two calculators of "Agent MCP": Scenario 1 (fastmcp) takes Python
\* ints, which have no largest value, and Scenario 2 (FastAPI) takes floats.
\* A number of the model is a one-digit mantissa m times a power of ten,
\* m * 10^e; a sum of two ints is the function from exponents to
\* coefficients.  A float is finite up to about 1.8 * 10^308 and is inf
\* beyond.
MaxMantissa == 2
FloatMax10Exp == 308
BigIntExp == 400
BigFloatExp == 300

Number(m, e) == [m |-> m, e |-> e]

IntOperands == {Number(m, e) : m \in -MaxMantissa .. MaxMantissa, e \in {0, BigIntExp}}
FloatOperands == {Number(m, e) : m \in -MaxMantissa .. MaxMantissa, e \in {0, BigFloatExp}}

Services == {"fastmcp_calculator", "fastapi_mcp_calculator"}

Operands(service) ==
    IF service = "fastmcp_calculator" THEN IntOperands ELSE FloatOperands

\* int + int, exact.
IntSum(a, b) ==
    [k \in {a.e, b.e} |-> (IF a.e = k THEN a.m ELSE 0) + (IF b.e = k THEN b.m ELSE 0)]

\* The float nearest to m * 10^e, inf when it is out of range.
Float(m, e) ==
    [m |-> m, e |-> IF m = 0 THEN 0 ELSE e, inf |-> m # 0 /\ e > FloatMax10Exp]

\* float + float: of two addends 300 decimal orders apart the smaller one is
\* rounded away.
FloatSum(a, b) ==
    IF a.e = b.e \/ a.m = 0 \/ b.m = 0 THEN Float(a.m + b.m, IF a.m = 0 THEN b.e ELSE a.e)
    ELSE IF a.e > b.e THEN Float(a.m, a.e) ELSE Float(b.m, b.e)

Negated(b) == Number(0 - b.m, b.e)

\* The quotient a / b as a float: the fraction of the mantissas times a
\* power of ten.
Quotient(a, b) ==
    [num |-> a.m, den |-> b.m, e |-> IF a.m = 0 THEN 0 ELSE a.e - b.e, inf |-> FALSE]

\* int / int raises OverflowError when the quotient is beyond the floats:
\* with one-digit mantissas it is at least 10^(a.e - b.e - 1).
TooLargeForFloat(a, b) == a.m # 0 /\ a.e - b.e - 1 > FloatMax10Exp

RaisesError(op, arg, message) ==
    [op |-> op, arg |-> arg, val |-> message, failed |-> TRUE, exc |-> TRUE]

Call(service, a, b) == [service |-> service, a |-> a, b |-> b]

add ==
    /\ \E service \in Services : \E a, b \in Operands(service) :
        ret' = Returns("add", Call(service, a, b),
                       IF service = "fastmcp_calculator" THEN IntSum(a, b)
                       ELSE FloatSum(a, b))
    /\ UNCHANGED <<apps, seq, interviews, iseq, returned, now, tx, agent>>

subtract ==
    /\ \E service \in Services : \E a, b \in Operands(service) :
        ret' = Returns("subtract", Call(service, a, b),
                       IF service = "fastmcp_calculator" THEN IntSum(a, Negated(b))
                       ELSE FloatSum(a, Negated(b)))
    /\ UNCHANGED <<apps, seq, interviews, iseq, returned, now, tx, agent>>

multiply ==
    /\ \E service \in Services : \E a, b \in Operands(service) :
        ret' = Returns("multiply", Call(service, a, b),
                       IF service = "fastmcp_calculator"
                       THEN Number(a.m * b.m, a.e + b.e)
                       ELSE Float(a.m * b.m, a.e + b.e))
    /\ UNCHANGED <<apps, seq, interviews, iseq, returned, now, tx, agent>>

divide ==
    /\ \E service \in Services : \E a, b \in Operands(service) :
        ret' = IF b.m = 0
               THEN RaisesError("divide", Call(service, a, b), "Cannot divide by zero")
               ELSE IF service = "fastmcp_calculator" /\ TooLargeForFloat(a, b)
               THEN RaisesError("divide", Call(service, a, b),
                                "integer division result too large for a float")
               ELSE Returns("divide", Call(service, a, b), Quotient(a, b))
    /\ UNCHANGED <<apps, seq, interviews, iseq, returned, now, tx, agent>>

NextCalculator == add \/ subtract \/ multiply \/ divide

SpecCalculator == Init /\ [][NextCalculator]_vars

\* C30: in both services divide(a, b) fails with 'Cannot divide by zero' for
\* every a when b = 0 and returns a result for every other b; add, subtract
\* and multiply return a result for all inputs.
C30_DivideFailsOnlyOnZero ==
    /\ ret.op = "divide" =>
            IF ret.arg.b.m = 0
            THEN ret.exc /\ ret.val = "Cannot divide by zero"
            ELSE ~ret.exc
    /\ ret.op \in {"add", "subtract", "multiply"} => ~ret.exc

\* ------------------------------------------------------------ the agent
\* JobSearchAgent of CustomGPT/src/agent.py.  run_daily_workflow is a
\* coroutine that awaits nothing outside itself, so nothing else of the agent
\* runs inside a call; the store is a file that other processes (the
\* dashboard) write between the agent's steps.  Each step is one action.
MaxRuns == 2          \* run_daily_workflow calls in one behaviour
ConfiguredLimit == 1  \* config["application"]["daily_limit"] of the agent

DefaultDailyLimit == 5
FollowUpInterval == 7
ReviewAfterDays == 7

\* self.config.get("application", {}).get("daily_limit", 5)
DailyLimit(config) == IF config = None THEN DefaultDailyLimit ELSE Value(config)

\* results["errors"].append(f"<step> error ...: {e}")
Error(step, item) == [step |-> step, item |-> item]

\* An except branch that only logs.
WithoutError(w, step, item) == w

WithError(w, step, item) ==
    [w EXCEPT !.agent.results.errors = Append(@, Error(step, item))]

\* What a step works on: the table, the rowid sequence, the identifiers
\* add_application returned, and the agent.
World == [apps |-> apps, seq |-> seq, returned |-> returned, agent |-> agent]

\* The steps in the order run_daily_workflow awaits them, and the position
\* after each.
WorkflowSteps ==
    <<"process_follow_ups", "search_new_jobs", "process_new_applications",
      "update_application_statuses">>

\* A loop that stays at a step instead of going on to the next.
AfterRepeating(step) == IF step = "update_application_statuses" THEN "return" ELSE step

\* The position after `step`: the next await, or the return after the last.
After(step) ==
    IF step = "update_application_statuses" THEN "return"
    ELSE WorkflowSteps[1 + CHOOSE i \in 1 .. 3 : WorkflowSteps[i] = step]

\* The agent when `step` has run.
Stepped(a, step) == [a EXCEPT !.pc = After(step), !.steps = Append(@, step)]

\* self.state.status = "searching"; results = {...}; the call is counted and
\* the status it found is remembered.
run_daily_workflow ==
    /\ agent.pc = "returned"
    /\ agent.runs < MaxRuns
    /\ agent' = [agent EXCEPT !.entered = agent.status,
                              !.status = "searching",
                              !.pc = "process_follow_ups",
                              !.steps = <<>>,
                              !.results = NewResults,
                              !.runs = @ + 1]
    /\ UNCHANGED <<apps, seq, interviews, iseq, returned, ret, now, tx>>

\* One more follow-up for each application of `ids`.
Counted(sent, ids) ==
    [id \in DOMAIN sent \cup ids |-> Get(sent, id) + (IF id \in ids THEN 1 ELSE 0)]

RECURSIVE UpdatedEach(_, _, _, _)
UpdatedEach(rows, ids, updates, t) ==
    IF ids = {} THEN rows
    ELSE LET id == CHOOSE i \in ids : TRUE
         IN UpdatedEach(Updated(rows, id, updates, t), ids \ {id}, updates, t)

\* {"follow_up_date": (datetime.now() + timedelta(days=7)).strftime(...)};
\* the notes are not kept.
NextFollowUpDate == [follow_up_date |-> Some(FmtDate(Today + FollowUpInterval))]

\* Step 1.  For each application get_follow_up_reminders() returns: a message
\* (generate_follow_up_message returns its fallback text when the generation
\* fails, so nothing is raised here), the follow-up date moved, one more
\* follow-up counted.  The order of the list changes nothing.
process_follow_ups ==
    /\ agent.pc = "process_follow_ups"
    /\ LET ids == Ids(FollowUpRows(DefaultDaysAhead))
       IN /\ apps' = UpdatedEach(apps, ids, NextFollowUpDate, now)
          /\ agent' = Stepped([agent EXCEPT
                                    !.results.follow_ups_sent = @ + Cardinality(ids),
                                    !.sent = Counted(@, ids)],
                              "process_follow_ups")
    /\ UNCHANGED <<seq, interviews, iseq, returned, ret, now, tx>>
\* _discover_jobs: the two jobs it returns on every call.
SeniorDataEngineer == <<83, 68, 69>>
MLEngineer == <<77, 76, 69>>

DiscoveredJobs ==
    <<[company |-> Google, position |-> SeniorDataEngineer],
      [company |-> Meta, position |-> MLEngineer]>>

\* JobApplication(company, position, ..., application_date = today,
\* status = "discovered"); follow_up_date keeps its default "".
Discovered(job) ==
    [company |-> Some(job.company), position |-> Some(job.position),
     status |-> "discovered", application_date |-> FmtDate(Today),
     follow_up_date |-> Some(<<>>)]

\* get_applications(...) returns the first `n` rows of `W` in the order of
\* ORDER BY application_date DESC, rows of one date in any order.  A row
\* may be returned when fewer than n rows come before it; the rows `M` may
\* all be left out when each has n rows outside M that need not come after
\* it.
CanFind(M, W, n) ==
    \E m \in M : Cardinality({e \in W : ApplicationBefore(e, m)}) < n

CanMiss(M, W, n) ==
    \A m \in M : Cardinality({e \in W \ M : ~ApplicationBefore(m, e)}) >= n

\* The results of add_application(application) at time t in world w: the row
\* inserted and counted, or, when the store fails, the exception caught and
\* appended to the errors.
JobAdded(w, k, job, fails, t) ==
    LET id == NextRowid(w.apps, w.seq)
    IN IF fails THEN WithError(w, "search_new_jobs", k)
       ELSE [w EXCEPT !.apps = @ \cup {InsertedRow(Discovered(job), id, t)},
                      !.seq = id,
                      !.returned = Append(@, id),
                      !.agent.results.new_jobs_found = @ + 1]

\* One pass of the loop body for the k-th job: existing_apps =
\* get_applications(company = job["company"]) with the default limit;
\* `continue` if one of them has the job's position, else add it.
JobSearched(w, k, job, failures, t) ==
    LET W == Where(w.apps, None, Some(job.company))
        M == {r \in W : r.position = Some(job.position)}
    IN (IF CanFind(M, W, DefaultLimit) THEN {w} ELSE {})
       \cup (IF CanMiss(M, W, DefaultLimit)
             THEN {JobAdded(w, k, job, fails, t) : fails \in failures}
             ELSE {})

RECURSIVE JobsSearched(_, _, _, _, _)
JobsSearched(w, k, jobs, failures, t) ==
    IF k > Len(jobs) THEN {w}
    ELSE UNION {JobsSearched(v, k + 1, jobs, failures, t) :
                    v \in JobSearched(w, k, jobs[k], failures, t)}

\* Step 2.  `failures` says whether the store may fail under an insert.
search_new_jobs(failures) ==
    /\ agent.pc = "search_new_jobs"
    /\ \E w \in JobsSearched(World, 1, DiscoveredJobs, failures, now) :
        /\ apps' = w.apps
        /\ seq' = w.seq
        /\ returned' = w.returned
        /\ agent' = Stepped(w.agent, "search_new_jobs")
    /\ UNCHANGED <<interviews, iseq, ret, now, tx>>

\* The rows get_applications(status, company) may return with the default
\* limit, and of rows still to come those that may come next: ORDER BY
\* application_date DESC, rows of one date in any order.
FirstRows(W, n) ==
    IF Cardinality(W) <= n THEN {W}
    ELSE {T \in SUBSET W :
            /\ Cardinality(T) = n
            /\ \A a \in T, b \in W \ T : ~ApplicationBefore(b, a)}

Listings(status, company) == FirstRows(ApplicationsWhere(status, company), DefaultLimit)

Firsts(rest) == {a \in rest : \A b \in rest : ~ApplicationBefore(b, a)}

\* How the generation for one application can go: every generator returned
\* its text; a generator failed inside and returned its fallback text
\* (parse_job_description, _create_tailored_resume, generate_cover_letter
\* and generate_recruiter_email catch their own exceptions); or an
\* exception left tailor_resume, whose analysis of the sections has no
\* except branch.
Outcomes == {"generated", "fallback", "raised"}

\* _process_application raises only what reaches its except branch.
ProcessRaises(outcome) == outcome = "raised"

ReadyToApply == [status |-> "ready_to_apply"]

\* One pass of the loop body for `app` when its generation goes as
\* `outcome`: _process_application(app), then the two counters; an exception
\* is appended to the errors.
ApplicationProcessed(w, app, outcome, t) ==
    LET v == [w EXCEPT !.agent.generated =
                    [id \in DOMAIN @ \cup {app.id} |->
                        IF id = app.id THEN outcome ELSE @[id]]]
    IN IF ProcessRaises(outcome)
       THEN WithError(v, "process_new_applications", app.id)
       ELSE [v EXCEPT
                !.apps = Updated(@, app.id, ReadyToApply, t),
                !.agent.results.applications_processed = @ + 1,
                !.agent.daily_application_count = @ + 1,
                !.agent.moved =
                    @ + (IF UpdateResult(w.apps, app.id, ReadyToApply) THEN 1 ELSE 0)]

\* A loop without the check of the daily limit.
LimitReachedNever(count, limit) == FALSE

\* The check of the daily limit each pass of the loop begins with.
LimitReached(count, limit) == count >= limit

\* for app in new_apps: break at the daily limit, else the loop body; the
\* loop goes on after an exception.  `rest` are the rows still to come.
RECURSIVE ApplicationsProcessed(_, _, _, _, _)
ApplicationsProcessed(w, rest, outcomes, limit, t) ==
    IF rest = {} \/ LimitReached(w.agent.daily_application_count, limit) THEN {w}
    ELSE UNION {ApplicationsProcessed(ApplicationProcessed(w, app, outcome, t),
                                      rest \ {app}, outcomes, limit, t) :
                    app \in Firsts(rest), outcome \in outcomes}

\* Step 3.  `outcomes` are the ways the generation may go, `config` the
\* configured daily limit if there is one.
process_new_applications(outcomes, config) ==
    /\ agent.pc = "process_new_applications"
    /\ \E new_apps \in Listings(Some("discovered"), None) :
        \E w \in ApplicationsProcessed(World, new_apps, outcomes, DailyLimit(config), now) :
            /\ apps' = w.apps
            /\ agent' = Stepped(w.agent, "process_new_applications")
    /\ UNCHANGED <<seq, interviews, iseq, returned, ret, now, tx>>

\* datetime.strptime(app.application_date, "%Y-%m-%d"): the day of a date
\* as FmtDate renders it; anything else is a ValueError.
ParseDate(text) ==
    IF Len(text) = 2 /\ \A i \in 1 .. 2 : text[i] \in 48 .. 57
    THEN Some((text[1] - 48) * 10 + (text[2] - 48))
    ELSE None

\* {"status": "under_review", "follow_up_date": now + 7 days}
UnderReview ==
    [status |-> "under_review",
     follow_up_date |-> Some(FmtDate(Today + FollowUpInterval))]

\* One pass of the loop body: a date that does not parse is an exception,
\* appended to the errors; an application sent a week ago or earlier goes
\* under review.
StatusUpdated(w, app, t) ==
    LET day == ParseDate(app.application_date)
    IN IF day = None
       THEN WithError(w, "update_application_statuses", app.id)
       ELSE IF Today - Value(day) >= ReviewAfterDays /\ app.status = "applied"
            THEN [w EXCEPT !.apps = Updated(@, app.id, UnderReview, t)]
            ELSE w

RECURSIVE StatusesUpdated(_, _, _)
StatusesUpdated(w, rest, t) ==
    IF rest = {} THEN {w}
    ELSE UNION {StatusesUpdated(StatusUpdated(w, app, t), rest \ {app}, t) :
                    app \in Firsts(rest)}

\* Step 4.
update_application_statuses ==
    /\ agent.pc = "update_application_statuses"
    /\ \E applications \in Listings(Some("applied"), None) :
        \E w \in StatusesUpdated(World, applications, now) :
            /\ apps' = w.apps
            /\ agent' = Stepped(w.agent, "update_application_statuses")
    /\ UNCHANGED <<seq, interviews, iseq, returned, ret, now, tx>>

\* self.state.status = "idle"; return results.  Every step catches what its
\* body raises, so the except branch of run_daily_workflow is never entered.
return_results ==
    /\ agent.pc = "return"
    /\ agent' = [agent EXCEPT !.status = "idle", !.pc = "returned"]
    /\ ret' = Returns("run_daily_workflow", <<>>, agent.results)
    /\ UNCHANGED <<apps, seq, interviews, iseq, returned, now, tx>>

\* pause_agent, resume_agent and stop_agent assign the status and nothing
\* else; they run between two calls of run_daily_workflow.
pause_agent ==
    /\ agent.pc = "returned"
    /\ agent' = [agent EXCEPT !.status = "paused"]
    /\ ret' = Returns("pause_agent", <<>>, None)
    /\ UNCHANGED <<apps, seq, interviews, iseq, returned, now, tx>>

resume_agent ==
    /\ agent.pc = "returned"
    /\ agent' = [agent EXCEPT !.status = "idle"]
    /\ ret' = Returns("resume_agent", <<>>, None)
    /\ UNCHANGED <<apps, seq, interviews, iseq, returned, now, tx>>

stop_agent ==
    /\ agent.pc = "returned"
    /\ agent' = [agent EXCEPT !.status = "stopped"]
    /\ ret' = Returns("stop_agent", <<>>, None)
    /\ UNCHANGED <<apps, seq, interviews, iseq, returned, now, tx>>

\* What the dashboard stores beside the agent: an application sent a week
\* ago with its follow-up due, and one whose date was left empty.
AgentApps ==
    {Application(Meta, "applied", FmtDate(Today - ReviewAfterDays), Some(FmtDate(Today))),
     Application(Meta, "applied", <<>>, None)}

NextAgent ==
    \/ add_application(AgentApps, MaxAdds)
    \/ run_daily_workflow
    \/ process_follow_ups
    \/ search_new_jobs(BOOLEAN)
    \/ process_new_applications(Outcomes, Some(ConfiguredLimit))
    \/ update_application_statuses
    \/ return_results
    \/ pause_agent
    \/ resume_agent
    \/ stop_agent

SpecAgent == Init /\ [][NextAgent]_vars
\* The position of `step` in the order of the steps.
StepNumber(step) == CHOOSE i \in DOMAIN WorkflowSteps : WorkflowSteps[i] = step

\* C21: each run_daily_workflow call runs process follow-ups, search new
\* jobs, process new applications, update application statuses in this
\* order, each exactly once; the status is 'searching' while the call is in
\* progress and 'idle' when it has returned, with or without errors.
C21_FourStepsInOrder ==
    /\ agent.pc \in Range(WorkflowSteps) =>
            /\ agent.steps = SubSeq(WorkflowSteps, 1, StepNumber(agent.pc) - 1)
            /\ agent.status = "searching"
    /\ agent.pc = "return" =>
            agent.steps = WorkflowSteps /\ agent.status = "searching"
    /\ agent.pc = "returned" /\ ret.op = "run_daily_workflow" =>
            agent.steps = WorkflowSteps /\ agent.status = "idle"

C21_Witness ==
    /\ agent.pc = "returned"
    /\ ret.op = "run_daily_workflow"
    /\ agent.runs = MaxRuns
    /\ agent.steps = WorkflowSteps
    /\ agent.status = "idle"
    /\ ret.val.errors # <<>>

\* The limit the agent of this specification is configured with.
AgentLimit == DailyLimit(Some(ConfiguredLimit))

Recorded(step, item) == Error(step, item) \in Range(agent'.results.errors)

C25_DailyLimitKept ==
    [][/\ agent'.daily_application_count <= AgentLimit
       /\ agent'.moved <= AgentLimit
       /\ agent'.daily_application_count - agent.daily_application_count =
            Cardinality({r \in apps :
                /\ agent.pc = "process_new_applications" /\ agent'.pc # agent.pc
                /\ r.status = "discovered"
                /\ \E n \in Hit(apps', r.id) : n.status = "ready_to_apply"
                /\ ~ProcessRaises(agent'.generated[r.id])})
      ]_vars

\* The limit was reached in an earlier call; the last call found an
\* application still 'discovered' and processed none.
C25_Witness ==
    /\ agent.pc = "returned"
    /\ ret.op = "run_daily_workflow"
    /\ agent.runs = MaxRuns
    /\ agent.daily_application_count = AgentLimit
    /\ agent.moved = AgentLimit
    /\ ret.val.applications_processed = 0
    /\ \E r \in apps : r.status = "discovered"
\* C27: after a follow-up was generated for an application and its
\* follow_up_date moved 7 days ahead, get_follow_up_reminders() does not
\* return it again on that day: the calls of one day send at most one
\* follow-up per application.  (The day is Today in every state.)
C27_OneFollowUpPerDay ==
    \A id \in DOMAIN agent.sent : agent.sent[id] <= 1

\* C28: an application is 'ready_to_apply' only when resume tailoring,
\* cover letter and recruiter message generation all completed without
\* error.
C28_ReadyOnlyAfterGeneration ==
    \A r \in apps :
        r.status = "ready_to_apply" =>
            r.id \in DOMAIN agent.generated /\ agent.generated[r.id] = "generated"

\* C29: once pause_agent or stop_agent was called the status stays 'paused'
\* or 'stopped' until resume_agent is called, and a run_daily_workflow call
\* made in that state adds and updates nothing in the store.
C29_PausedAgentDoesNothing ==
    [][/\ agent.status \in {"paused", "stopped"} =>
            agent'.status \in {"paused", "stopped"} \/ ret'.op = "resume_agent"
       /\ agent.entered \in {"paused", "stopped"} /\ agent'.pc # agent.pc
            /\ agent.pc # "returned" => apps' = apps
      ]_vars
\* ---------------------------------------------------- saving search results
\* save_all_to_tracker of CustomGPT/ui/dashboard.py with
\* create_job_application_from_search of CustomGPT/src/jobs_search.py.
MaxResults == 2       \* rows of a search result

\* The fields of the JobApplication dataclass: the keyword arguments its
\* constructor accepts.
JobApplicationFields ==
    {"id", "company", "position", "location", "job_url", "job_description",
     "application_date", "status", "priority", "salary_range", "notes",
     "recruiter_name", "recruiter_email", "follow_up_date", "interview_date",
     "interview_type", "interview_notes", "rejection_reason", "offer_amount",
     "created_at", "updated_at"}

\* The dictionary create_job_application_from_search builds of a row; the
\* texts the store does not compare are left empty.
create_job_application_from_search(job_data) ==
    [company |-> job_data.company, position |-> job_data.title,
     location |-> <<>>, job_description |-> <<>>, job_url |-> <<>>,
     application_date |-> FmtDate(Today), status |-> "new",
     priority |-> "medium", source |-> "job_search", notes |-> <<>>]

\* JobApplication(**app_data) raises TypeError for a key that is no field.
Rejected(app_data) == ~(DOMAIN app_data \subseteq JobApplicationFields)

\* JobApplication(**app_data): the fields the store keeps, follow_up_date
\* with its default "".
JobApplicationOf(app_data) ==
    [company |-> Some(app_data.company), position |-> Some(app_data.position),
     status |-> app_data.status, application_date |-> app_data.application_date,
     follow_up_date |-> Some(<<>>)]

\* The loop of save_all_to_tracker from row k on: the first exception ends
\* it, since the try block is around the whole loop.
RECURSIVE SavedFrom(_, _, _, _)
SavedFrom(w, k, results, t) ==
    IF k > Len(results) THEN w
    ELSE LET app_data == create_job_application_from_search(results[k])
             id == NextRowid(w.apps, w.seq)
         IN IF Rejected(app_data) \/ NotNullViolated(JobApplicationOf(app_data))
            THEN [w EXCEPT !.error = TRUE]
            ELSE SavedFrom([w EXCEPT
                                !.apps = @ \cup {InsertedRow(JobApplicationOf(app_data), id, t)},
                                !.seq = id,
                                !.returned = Append(@, id),
                                !.saved_count = @ + 1],
                           k + 1, results, t)

\* st.success(f"Saved {saved_count} jobs to tracker!") after the loop, or
\* st.error(...) in the except branch: the value is the number the success
\* message shows, if it is shown.
save_all_to_tracker(searches) ==
    /\ \E results \in searches :
        LET w == SavedFrom([apps |-> apps, seq |-> seq, returned |-> returned,
                            saved_count |-> 0, error |-> FALSE],
                           1, results, now)
        IN /\ apps' = w.apps
           /\ seq' = w.seq
           /\ returned' = w.returned
           /\ ret' = IF w.error THEN Swallows("save_all_to_tracker", results, None)
                     ELSE Returns("save_all_to_tracker", results, Some(w.saved_count))
    /\ UNCHANGED <<interviews, iseq, now, tx, agent>>

\* The rows of a search result: the columns `company` and `title`.
SearchRows == {[company |-> Meta, title |-> MLEngineer],
               [company |-> Google, title |-> SeniorDataEngineer]}

SearchResults == UNION {[1 .. n -> SearchRows] : n \in 0 .. MaxResults}

NextSave ==
    \/ save_all_to_tracker(SearchResults)
    \/ add_application(StatusApps, MaxAdds)
    \/ update_application(IdValues, TransitionUpdates)
    \/ delete_application(IdValues)

SpecSave == Init /\ [][NextSave]_vars

\* C24: save_all_to_tracker adds one application to the store for each of
\* the n rows of the search result and reports n saved jobs.
C24_SavesEveryRow ==
    [][ret'.op = "save_all_to_tracker" =>
            /\ ret'.val = Some(Len(ret'.arg))
            /\ Cardinality(apps') = Cardinality(apps) + Len(ret'.arg)
      ]_vars
\* ------------------------------------------------- discovery in a full store
MaxStored == 52       \* add_application calls beside and by the agent

\* Applications at Google the dashboard stores with a date after the day of
\* the discovery, none of them open.
DiscoveryApps == {Application(Google, "rejected", FmtDate(Today + 1), None)}

NextDiscovery ==
    \/ add_application(DiscoveryApps, MaxStored)
    \/ run_daily_workflow
    \/ process_follow_ups
    \/ search_new_jobs({FALSE})
    \/ process_new_applications({"generated"}, Some(ConfiguredLimit))
    \/ update_application_statuses
    \/ return_results

SpecDiscovery == Init /\ [][NextDiscovery]_vars

\* C26: _search_new_jobs inserts an application for a discovered job only
\* when the store holds none with the same company and position, so after
\* any number of calls the store holds at most one application per
\* discovered (company, position), however many other applications of the
\* company it holds.
C26_DiscoveryIdempotent ==
    \A k \in DOMAIN DiscoveredJobs :
        Cardinality({r \in apps :
                        /\ r.company = DiscoveredJobs[k].company
                        /\ r.position = Some(DiscoveredJobs[k].position)}) <= 1
====
